---- MODULE Spec2Model ----
(***************************************************************************)
(* Model of the image ingestion worker: the retry executor                 *)
(* (src/src/utils/retry.ts), the item pipeline and the batch run loop      *)
(* (ImageIngestionWorker), and the stage adapters it drives                *)
(* (UnsplashService, CloudinaryService, LaravelApiClient).                 *)
(***************************************************************************)
EXTENDS Integers, Sequences, FiniteSets, TLC

(***************************************************************************)
(* Bounds of the model and constants of the program.                       *)
(***************************************************************************)
\* largest attempts value the retry executor is explored with
MaxAttempts == 3
\* default of RETRY_BACKOFF_MS
DefaultBackoffMs == 500
\* default exponential factor of retry()
DefaultFactor == 2
\* number of products of the dataset (data/products.json), ids 1..NumProducts
NumProducts == 3
\* largest RETRY_ATTEMPTS the worker is explored with
MaxWorkerAttempts == 2
\* largest total_pages the image source reports
MaxPages == 2
\* Math.min(pages, 10): the page cap of fetchImagesForCategory
PageCap == 10
\* largest total_pages the image source reports when the fetch stage is
\* explored on its own
MaxTotalPages == 12

VARIABLES
    \* ---- retry() run on its own: options, locals, observations
    rAttempts,      \* options.attempts
    rBackoffMs,     \* options.backoffMs
    rFactor,        \* options.factor
    rAttempt,       \* the loop variable attempt
    rLastError,     \* lastError: <<>> is undefined, <<j>> the error of call j
    rpc,            \* "start", "call", "sleep", "returned", "thrown"
    rOutcomes,      \* per invocation of the operation so far: "ok" or "err"
    rWaits,         \* the durations passed to sleep(), in order
    rResult,        \* what retry returned: <<j>> is the result of call j
    rThrown,        \* what retry threw: <<j>> the error of call j
    \* ---- the process: argv, env and the file data/failed-products.json
    manifest,       \* [exists, failed]: the manifest file on disk
    productFlag,    \* [given, ids]: --products=...
    useFailedFlag,  \* --useFailed
    wAttempts,      \* env.retryAttempts
    \* ---- ImageIngestionWorker
    mode,           \* branch the constructor took: "targeted", "failed", "full"
    manifestRead,   \* require('../../data/failed-products.json') in the
                    \* constructor: "no" (not reached), "ok", "threw"
    loaded,         \* what the constructor read from the manifest (<<>> if not read)
    productsToProcess,  \* ids of this.productsToProcess, in order
    failedProducts, \* this.failedProducts
    wpc,            \* "init", "loop", "item", "write", "done"
    idx,            \* position of the run loop in productsToProcess
    processed,      \* ids processProduct was invoked with in this run, in order
    outcomes,       \* per invocation of processProduct: "ok" or "fail"
    \* ---- processProduct and the stage adapters, for the current item
    ppc,            \* call in flight: "idle", "request", "download", "store", "register"
    oAtt,           \* attempt of the worker's retry around the stage
    iAtt,           \* attempt of the adapter's retry around the call in flight
    pg,             \* page of the request in flight
    pageLimit,      \* pageLimit of fetchImagesForCategory
    reported,       \* pages of the response to page 1, while a later page of
                    \* the same invocation is requested; else 0
    rawCount,       \* images.length in the fetch stage, then rawUrls.length
    ui,             \* the loop variable i of uploadAll
    upImages,       \* images of uploadAll: the reference index of each entry
    nFetch,         \* invocations of fetchImagesForCategory for this item
    anyDown,        \* a download was issued for this item
    anyStore,       \* a store was issued for this item
    nReg,           \* registration calls issued for this item
    emptyFetch,     \* the fetch stage returned [] for this item
    failStage,      \* where the item failed: "none", "category", "retry", "fetch",
                    \* "empty", "upload", "count", "register"
    regFailKind,    \* how the registration call failed, "none" if it did not
    anyResolved,    \* a call of the stage under way resolved for this item
    nFailed,        \* while no call of the stage has resolved: the calls of its
                    \* first call (page 1, the download of reference 0) so far,
                    \* all rejected
    deadCalls,      \* when the item failed on a stage no call of which ever
                    \* resolved: the calls of the stage's first call; else 0
    stored,         \* the assets the store holds of the uploads of the item
                    \* under way: [folder, publicId, ref]
    \* ---- end of run
    nWrites,        \* fs.writeFile calls of this run
    payload,        \* the ids passed to the last fs.writeFile of this run
    writeOk,        \* that writeFile resolved
    summary,        \* what run() printed at its end
    exitCode        \* the code main() passed to process.exit, NoExit before

rvars == <<rAttempts, rBackoffMs, rFactor, rAttempt, rLastError, rpc,
           rOutcomes, rWaits, rResult, rThrown>>
cfgv == <<productFlag, useFailedFlag, wAttempts, mode, manifestRead, loaded,
          productsToProcess>>
accv == <<failedProducts, idx, processed, outcomes>>
pipev == <<ppc, oAtt, iAtt, pg, pageLimit, rawCount, ui, upImages>>
cntv == <<nFetch, anyDown, anyStore, nReg>>
flagv == <<emptyFetch, failStage, regFailKind>>
callv == <<anyResolved, nFailed, deadCalls>>
outv == <<manifest, nWrites, payload, writeOk, summary>>
wvars == <<cfgv, accv, pipev, cntv, flagv, callv, stored, reported, outv, wpc,
           exitCode>>
vars == <<rvars, wvars>>

(***************************************************************************)
(* retry(): src/src/utils/retry.ts                                         *)
(***************************************************************************)
RECURSIVE Pow(_, _)
Pow(b, e) == IF e <= 0 THEN 1 ELSE b * Pow(b, e - 1)

\* new Error(`Operation ... failed after all retries`): no call raised it
GenericError == <<0>>

\* a loop that tests its condition after the first call (do ... while)
RetryLoopCondAfterFirst(attempt, attempts) == attempt = 1 \/ attempt <= attempts
\* for (let attempt = 1; attempt <= attempts; attempt++)
RetryLoopCond(attempt, attempts) == attempt <= attempts

\* a loop that stops one attempt short
IsLastAttemptEarly(attempt, attempts) == attempt >= attempts - 1
\* const isLastAttempt = attempt === attempts
IsLastAttempt(attempt, attempts) == attempt = attempts

\* a backoff whose exponent is the attempt number itself
WaitMsOffByOne(backoffMs, factor, attempt) == backoffMs * Pow(factor, attempt)
\* const waitMs = backoffMs * Math.pow(factor, attempt - 1)
WaitMs(backoffMs, factor, attempt) == backoffMs * Pow(factor, attempt - 1)

\* a catch that rethrows the first error it ever saw
ThrownFirstError(first, error) == IF first = <<>> THEN error ELSE first
\* catch (error) { ... throw error }: first is lastError before this catch
ThrownError(first, error) == error

\* a success whose value is dropped, so that the loop goes on
AfterSuccessNoReturn(attempt, attempts) ==
    [pc |-> IF attempt + 1 <= attempts THEN "call" ELSE "thrown",
     attempt |-> attempt + 1]
\* return await operation()
AfterSuccess(attempt, attempts) == [pc |-> "returned", attempt |-> attempt]

\* throw lastError ?? new Error(...)
FallThroughError(lastError) ==
    IF lastError = <<>> THEN GenericError ELSE lastError

RetryInit ==
    /\ rAttempts \in -1..MaxAttempts
    /\ rBackoffMs \in {0, 1, DefaultBackoffMs}
    /\ rFactor \in {1, DefaultFactor, DefaultFactor + 1}
    /\ rAttempt = 1
    /\ rLastError = <<>>
    /\ rpc = "start"
    /\ rOutcomes = <<>>
    /\ rWaits = <<>>
    /\ rResult = <<>>
    /\ rThrown = <<>>

\* entry: the first evaluation of the loop condition
RetryEnter ==
    /\ rpc = "start"
    /\ IF RetryLoopCond(1, rAttempts)
         THEN rpc' = "call" /\ rThrown' = rThrown
         ELSE rpc' = "thrown" /\ rThrown' = FallThroughError(rLastError)
    /\ UNCHANGED <<rAttempts, rBackoffMs, rFactor, rAttempt, rLastError,
                   rOutcomes, rWaits, rResult>>
    /\ UNCHANGED wvars

\* the operation resolves
RetryOpSucceeds ==
    /\ rpc = "call"
    /\ rOutcomes' = Append(rOutcomes, "ok")
    /\ LET nxt == AfterSuccess(rAttempt, rAttempts) IN
         /\ rpc' = nxt.pc
         /\ rAttempt' = nxt.attempt
         /\ rResult' = IF nxt.pc = "returned" THEN <<Len(rOutcomes) + 1>> ELSE rResult
         /\ rThrown' = IF nxt.pc = "thrown" THEN FallThroughError(rLastError) ELSE rThrown
    /\ UNCHANGED <<rAttempts, rBackoffMs, rFactor, rLastError, rWaits>>
    /\ UNCHANGED wvars

\* the operation rejects: the catch block up to throw or sleep
RetryOpFails ==
    /\ rpc = "call"
    /\ rOutcomes' = Append(rOutcomes, "err")
    /\ rLastError' = <<Len(rOutcomes) + 1>>
    /\ IF IsLastAttempt(rAttempt, rAttempts)
         THEN /\ rpc' = "thrown"
              /\ rThrown' = ThrownError(rLastError, <<Len(rOutcomes) + 1>>)
              /\ rWaits' = rWaits
         ELSE /\ rpc' = "sleep"
              /\ rThrown' = rThrown
              /\ rWaits' = Append(rWaits, WaitMs(rBackoffMs, rFactor, rAttempt))
    /\ UNCHANGED <<rAttempts, rBackoffMs, rFactor, rAttempt, rResult>>
    /\ UNCHANGED wvars

\* the timer fires: attempt++ and the loop condition
RetrySleepDone ==
    /\ rpc = "sleep"
    /\ rAttempt' = rAttempt + 1
    /\ IF RetryLoopCond(rAttempt + 1, rAttempts)
         THEN rpc' = "call" /\ rThrown' = rThrown
         ELSE rpc' = "thrown" /\ rThrown' = FallThroughError(rLastError)
    /\ UNCHANGED <<rAttempts, rBackoffMs, rFactor, rLastError, rOutcomes,
                   rWaits, rResult>>
    /\ UNCHANGED wvars

RetryNext ==
    \/ RetryEnter
    \/ RetryOpSucceeds
    \/ RetryOpFails
    \/ RetrySleepDone

(***************************************************************************)
(* retry(): claims                                                         *)
(***************************************************************************)
AllFailed == \A j \in 1..Len(rOutcomes) : rOutcomes[j] = "err"

\* C4: an operation that fails on every call is invoked exactly N = attempts
\* times, retry waits exactly N-1 times, the k-th wait lasting
\* backoffMs * factor^(k-1), and there is no wait after the N-th failure.
C4_AlwaysFailingCallsAndWaits ==
    /\ Len(rWaits) <= Len(rOutcomes)
    /\ (rpc = "thrown" /\ rAttempts >= 1 /\ AllFailed) =>
          /\ Len(rOutcomes) = rAttempts
          /\ Len(rWaits) = rAttempts - 1
          /\ \A k \in 1..Len(rWaits) : rWaits[k] = rBackoffMs * Pow(rFactor, k - 1)

C4_Witness ==
    /\ rpc = "thrown" /\ rAttempts = 3 /\ AllFailed
    /\ rBackoffMs = DefaultBackoffMs /\ rFactor = DefaultFactor
    /\ rWaits = <<500, 1000>>

\* C5: an operation that fails on calls 1..k-1 and succeeds on call k (k <= N)
\* is invoked exactly k times, retry returns the result of call k, and nothing
\* is invoked and no wait happens after that success.
C5_ReturnsFirstSuccess ==
    /\ \A j \in 1..Len(rOutcomes) :
          rOutcomes[j] = "ok" => (j = Len(rOutcomes) /\ rpc = "returned")
    /\ rpc = "returned" =>
          /\ Len(rOutcomes) \in 1..rAttempts
          /\ rOutcomes[Len(rOutcomes)] = "ok"
          /\ rResult = <<Len(rOutcomes)>>
          /\ Len(rWaits) = Len(rOutcomes) - 1
          /\ rThrown = <<>>
    /\ rpc # "returned" => rResult = <<>>

C5_Witness ==
    /\ rpc = "returned" /\ rAttempts = 3
    /\ rOutcomes = <<"err", "ok">> /\ rResult = <<2>>

\* C6: when every attempt fails (attempts >= 1) retry throws the error raised
\* by the last attempt, not an earlier one and not an aggregate.
C6_ThrowsLastError ==
    (rpc = "thrown" /\ rAttempts >= 1) =>
        /\ Len(rOutcomes) >= 1
        /\ rOutcomes[Len(rOutcomes)] = "err"
        /\ rThrown = <<Len(rOutcomes)>>

C6_Witness ==
    /\ rpc = "thrown" /\ rAttempts = 3 /\ Len(rOutcomes) = 3
    /\ rThrown = <<3>> /\ rLastError = <<3>>

(***************************************************************************)
(* ImageIngestionWorker: the dataset, the constructor                      *)
(***************************************************************************)

\* a page limit that is the reported page count, uncapped
MinFirst(a, b) == a
\* Math.min(a, b)
Min(a, b) == IF a <= b THEN a ELSE b

\* products.json: the ids of the dataset, in dataset order
Products == [j \in 1..NumProducts |-> j]
ProductIds == {Products[j] : j \in 1..NumProducts}
\* an id no product of the dataset has
ForeignId == NumProducts + 1

\* products.filter(p => ids.includes(p.id)), ids given as a set
RECURSIVE FilterByIds(_, _)
FilterByIds(seq, ids) ==
    IF seq = <<>> THEN <<>>
    ELSE (IF Head(seq) \in ids THEN <<Head(seq)>> ELSE <<>>)
         \o FilterByIds(Tail(seq), ids)

SeqToSet(seq) == {seq[j] : j \in 1..Len(seq)}

\* a manifest written from the accumulator as it is
DedupNone(seq) == seq
\* [...new Set(ids)]: first occurrences, in order
RECURSIVE Dedup(_)
Dedup(seq) ==
    IF seq = <<>> THEN <<>>
    ELSE LET IsOther(id) == id # Head(seq)
         IN <<Head(seq)>> \o Dedup(SelectSeq(Tail(seq), IsOther))

NoSummary == [printed |-> FALSE, success |-> 0, failed |-> 0,
              suggested |-> FALSE, suggestion |-> <<>>]

\* the --products values explored: none, or one or two ids, of the dataset or not
FlagChoices ==
    {[given |-> FALSE, ids |-> {}]} \cup
    {[given |-> TRUE, ids |-> S] :
        S \in {T \in SUBSET (ProductIds \cup {ForeignId}) : Cardinality(T) \in 1..2}}

\* the accumulator the failed rerun starts from: an empty one
FailedRerunStartsEmpty(failed) == <<>>
\* this.failedProducts = failedFile.failed || []
FailedRerunStart(failed) == failed

\* the process has not exited
NoExit == -1
\* main(): process.exit(0) after await worker.run(), process.exit(1) in catch
ExitCode(raised) == IF raised THEN 1 ELSE 0

PipeIdle ==
    /\ ppc = "idle" /\ oAtt = 0 /\ iAtt = 0 /\ pg = 0 /\ pageLimit = 0
    /\ rawCount = 0 /\ ui = 0 /\ upImages = <<>>
CountersZero ==
    /\ nFetch = 0 /\ anyDown = FALSE /\ anyStore = FALSE /\ nReg = 0
FlagsClear ==
    /\ emptyFetch = FALSE /\ failStage = "none" /\ regFailKind = "none"

PipeReset ==
    /\ ppc' = "idle" /\ oAtt' = 0 /\ iAtt' = 0 /\ pg' = 0 /\ pageLimit' = 0
    /\ rawCount' = 0 /\ ui' = 0 /\ upImages' = <<>>
CountersReset ==
    /\ nFetch' = 0 /\ anyDown' = FALSE /\ anyStore' = FALSE /\ nReg' = 0
FlagsReset ==
    /\ emptyFetch' = FALSE /\ failStage' = "none" /\ regFailKind' = "none"

CallsClear == anyResolved = FALSE /\ nFailed = 0 /\ deadCalls = 0
CallsReset == anyResolved' = FALSE /\ nFailed' = 0 /\ deadCalls' = 0
\* a call that the adapters retry is in flight after the step
RetriedCallNext == ppc' \in {"request", "download", "store"}
\* the step stays in the stage of the call in flight: retry(fetchImagesForCategory)
\* or retry(uploadAll)
SameStageNext == RetriedCallNext /\ ((ppc = "request") <=> (ppc' = "request"))
\* the call in flight resolved; what was observed of the calls is kept as long
\* as the step issues another call of the same stage
CallResolved ==
    IF SameStageNext
      THEN anyResolved' = TRUE /\ nFailed' = 0 /\ deadCalls' = 0
      ELSE CallsReset
\* the call in flight rejected: the catch of retry() in the adapter
CallRejected ==
    LET n == IF anyResolved THEN 0 ELSE nFailed + 1
    IN IF RetriedCallNext
         THEN anyResolved' = anyResolved /\ nFailed' = n /\ deadCalls' = 0
         ELSE anyResolved' = FALSE /\ nFailed' = 0 /\ deadCalls' = n

\* data/failed-products.json before the first run: absent, or naming an id
\* that is no longer in the dataset
InitialManifests ==
    {[exists |-> FALSE, failed |-> <<>>],
     [exists |-> TRUE, failed |-> <<ForeignId>>]}
\* the same, or as a full run in which products 1 and 2 failed left it
LeftManifests == InitialManifests \cup {[exists |-> TRUE, failed |-> <<1, 2>>]}

\* the process before new ImageIngestionWorker(), the manifest being one of ms
WorkerStart(ms) ==
    /\ manifest \in ms
    /\ productFlag = [given |-> FALSE, ids |-> {}]
    /\ useFailedFlag = FALSE
    /\ wAttempts = 0
    /\ mode = "full"
    /\ manifestRead = "no"
    /\ loaded = <<>>
    /\ productsToProcess = <<>>
    /\ failedProducts = <<>>
    /\ wpc = "init"
    /\ idx = 1
    /\ processed = <<>>
    /\ outcomes = <<>>
    /\ PipeIdle /\ CountersZero /\ FlagsClear /\ CallsClear
    /\ stored = {}
    /\ reported = 0
    /\ nWrites = 0 /\ payload = <<>> /\ writeOk = FALSE
    /\ summary = NoSummary
    /\ exitCode = NoExit

WorkerInit == WorkerStart(InitialManifests)

\* a constructor that looks at --useFailed first
SelectModeFailedFirst(given, useFailed, readOk) ==
    IF useFailed /\ readOk THEN "failed"
    ELSE IF given THEN "targeted" ELSE "full"
\* the branch the constructor takes: if (productFlag) ... return; if
\* (useFailedFlag) try { require ... return } catch; else the full dataset.
\* readOk: require of the manifest does not throw
SelectMode(given, useFailed, readOk) ==
    IF given THEN "targeted"
    ELSE IF useFailed /\ readOk THEN "failed" ELSE "full"

\* a filter that keeps every product
TargetedSelectionAll(ids) == Products
\* products.filter((product) => productIds.includes(product.id))
TargetedSelection(ids) == FilterByIds(Products, ids)

\* a constructor that selects nothing when it falls through
FullSelectionNone == <<>>
\* this.productsToProcess = products
FullSelection == Products

\* node index.js [--products=...] [--useFailed]: new ImageIngestionWorker();
\* readable: the manifest, if it is there, can be read and parsed
Launch ==
    /\ wpc \in {"init", "done"}
    /\ \E flag \in FlagChoices, uf \in BOOLEAN, att \in 0..MaxWorkerAttempts,
          readable \in BOOLEAN :
         LET m == SelectMode(flag.given, uf, manifest.exists /\ readable)
         IN /\ productFlag' = flag
            /\ useFailedFlag' = uf
            /\ wAttempts' = att
            /\ mode' = m
            /\ manifestRead' = IF m = "failed" THEN "ok"
                               ELSE IF m = "full" /\ uf THEN "threw" ELSE "no"
            /\ loaded' = IF m = "failed" THEN manifest.failed ELSE <<>>
            /\ failedProducts' =
                 IF m = "failed" THEN FailedRerunStart(manifest.failed) ELSE <<>>
            /\ productsToProcess' =
                 CASE m = "targeted" -> TargetedSelection(flag.ids)
                   [] m = "failed" ->
                        FilterByIds(Products, SeqToSet(manifest.failed))
                   [] OTHER -> FullSelection
    /\ wpc' = "loop"
    /\ idx' = 1
    /\ processed' = <<>>
    /\ outcomes' = <<>>
    /\ PipeReset /\ CountersReset /\ FlagsReset /\ CallsReset
    /\ stored' = {}
    /\ reported' = 0
    /\ nWrites' = 0 /\ payload' = <<>> /\ writeOk' = FALSE
    /\ summary' = NoSummary
    /\ exitCode' = NoExit
    /\ UNCHANGED <<manifest, rvars>>

(***************************************************************************)
(* run(): the loop, and how one invocation of processProduct ends           *)
(***************************************************************************)
CurId == productsToProcess[idx]

\* a loop that takes a failed item again
NextIndexRetryFailed(i, failed) == IF failed THEN i ELSE i + 1
\* a loop that a failed item ends
NextIndexStopOnFailure(i, failed) ==
    IF failed THEN Len(productsToProcess) + 1 ELSE i + 1
\* for (const product of this.productsToProcess): the next position
NextIndex(i, failed) == i + 1

\* a catch that only logs
PushFailedDropped(acc, id) == acc
\* this.failedProducts.push(product.id)
PushFailed(acc, id) == Append(acc, id)

\* a loop without the try/catch around processProduct
RunRaisesOnFailure(failed) == failed
\* try { await this.processProduct(product) } catch (error) { ... push }: the
\* error of an item does not leave run()
RunRaises(failed) == FALSE

\* processProduct returned or threw: back in the loop of run()
ItemDone(failed, stage, empty, kind) ==
    /\ failedProducts' =
         IF failed THEN PushFailed(failedProducts, CurId) ELSE failedProducts
    /\ outcomes' = Append(outcomes, IF failed THEN "fail" ELSE "ok")
    /\ idx' = NextIndex(idx, failed)
    /\ wpc' = IF RunRaises(failed) THEN "done" ELSE "loop"
    /\ exitCode' = IF RunRaises(failed) THEN ExitCode(TRUE) ELSE exitCode
    /\ PipeReset
    /\ emptyFetch' = empty
    /\ failStage' = stage
    /\ regFailKind' = kind
    /\ UNCHANGED <<cfgv, outv, rvars>>

\* a loop of run() that does not await processProduct: it goes on while the
\* call is out
InFlightNotAwaited(call, o, i, page, limit, raw, index, imgs) ==
    /\ ppc' = call /\ oAtt' = o /\ iAtt' = i /\ pg' = page
    /\ pageLimit' = limit /\ rawCount' = raw /\ ui' = index /\ upImages' = imgs
    /\ wpc' = "loop"
    /\ emptyFetch' = (call # "request" /\ raw = 0)
    /\ UNCHANGED <<cfgv, failedProducts, idx, outcomes, outv, exitCode, rvars>>
\* a call goes out: the pipeline waits for it; past the fetch stage with no
\* reference, the fetch stage has returned []
InFlight(call, o, i, page, limit, raw, index, imgs) ==
    /\ ppc' = call /\ oAtt' = o /\ iAtt' = i /\ pg' = page
    /\ pageLimit' = limit /\ rawCount' = raw /\ ui' = index /\ upImages' = imgs
    /\ wpc' = "item"
    /\ emptyFetch' = (call # "request" /\ raw = 0)
    /\ UNCHANGED <<cfgv, failedProducts, idx, outcomes, outv, exitCode, rvars>>

\* makeUnsplashRequest(query, remaining, page) is called; fresh: by a new
\* invocation of fetchImagesForCategory
IssueRequest(o, i, page, limit, raw, fresh) ==
    /\ InFlight("request", o, i, page, limit, raw, 0, <<>>)
    /\ nFetch' = IF fresh THEN nFetch + 1 ELSE nFetch
    /\ UNCHANGED <<anyDown, anyStore, nReg, failStage, regFailKind>>

\* axios.get(url) of downloadImage is called
IssueDownload(o, i, raw, index, imgs) ==
    /\ InFlight("download", o, i, 0, 0, raw, index, imgs)
    /\ anyDown' = TRUE
    /\ UNCHANGED <<nFetch, anyStore, nReg, failStage, regFailKind>>

\* an uploadAll that goes on to the next download without storing the buffer
IssueStoreSkipped(o, i, raw, index, imgs) ==
    IssueDownload(o, i, raw, index + 1, imgs)
\* cloudinary.uploader.upload_stream of uploadBuffer is called
IssueStore(o, i, raw, index, imgs) ==
    /\ InFlight("store", o, i, 0, 0, raw, index, imgs)
    /\ anyStore' = TRUE
    /\ UNCHANGED <<nFetch, anyDown, nReg, failStage, regFailKind>>

\* client.post of uploadProductImages is called
IssueRegister(raw, imgs) ==
    /\ InFlight("register", 0, 0, 0, 0, raw, 0, imgs)
    /\ nReg' = nReg + 1
    /\ UNCHANGED <<nFetch, anyDown, anyStore, failStage, regFailKind>>

\* if (rawUrls.length !== uploadedImageUrls.length)
CountMismatch(raw, uploaded) == raw # uploaded

\* an empty fetch result let through
FetchedNothingIgnored(raw) == FALSE
\* if (rawUrls.length === 0)
FetchedNothing(raw) == raw = 0

\* uploadAll returned imgs: the count check, then the registration call
UploadReturned(raw, imgs) ==
    IF CountMismatch(raw, Len(imgs))
      THEN ItemDone(TRUE, "count", emptyFetch, "none") /\ UNCHANGED cntv
      ELSE IssueRegister(raw, imgs)

\* uploadAll at the head of its loop, with i = index and images = imgs
UploadLoop(o, raw, index, imgs) ==
    IF index < raw
      THEN IssueDownload(o, 1, raw, index, imgs)
      ELSE UploadReturned(raw, imgs)

\* fetchImagesForCategory returned raw urls to processProduct: the emptiness
\* check, then retry(() => uploadAll(rawUrls, product.id))
FetchReturned(raw) ==
    IF FetchedNothing(raw)
      THEN ItemDone(TRUE, "empty", raw = 0, "none") /\ UNCHANGED cntv
      ELSE UploadLoop(1, raw, 0, <<>>)

\* the stage's operation threw inside the worker's retry, at attempt oAtt; the
\* wait before the next attempt is part of this step
StageThrew(stage) ==
    IF IsLastAttempt(oAtt, wAttempts) \/ ~RetryLoopCond(oAtt + 1, wAttempts)
      THEN ItemDone(TRUE, stage, emptyFetch, "none") /\ UNCHANGED cntv
      ELSE IF stage = "fetch"
      THEN IssueRequest(oAtt + 1, 1, 1, 0, 0, TRUE)
      ELSE UploadLoop(oAtt + 1, rawCount, 0, <<>>)

\* the call in flight threw inside the adapter's retry, at attempt iAtt; the
\* wait before the next attempt is part of this step
CallThrew(stage) ==
    IF IsLastAttempt(iAtt, wAttempts) \/ ~RetryLoopCond(iAtt + 1, wAttempts)
      THEN StageThrew(stage)
      ELSE CASE ppc = "request" ->
                  IssueRequest(oAtt, iAtt + 1, pg, pageLimit, rawCount, FALSE)
             [] ppc = "download" ->
                  IssueDownload(oAtt, iAtt + 1, rawCount, ui, upImages)
             [] ppc = "store" ->
                  IssueStore(oAtt, iAtt + 1, rawCount, ui, upImages)

(***************************************************************************)
(* run() and processProduct: the steps                                     *)
(***************************************************************************)
\* a public id that differs from one attempt to the next
PublicIdPerAttempt(index, o, i) == <<"image", index, o, i>>
\* public_id: `image_${index}`
PublicId(index, o, i) == <<"image", index>>
\* what upload_stream is given for reference index at attempts o and i:
\* folder `${env.cloudinaryUploadFolder}/${productId}` and the public id
Asset(index, o, i) ==
    [folder |-> CurId, publicId |-> PublicId(index, o, i), ref |-> index]
\* the store takes an asset: one of the same folder and public id is replaced
StorePut(assets, asset) ==
    {a \in assets : <<a.folder, a.publicId>> # <<asset.folder, asset.publicId>>}
        \cup {asset}
\* the assets of the item under way after the step, none once its pipeline is
\* over
StoreKept(assets) == stored' = IF wpc' = "item" THEN assets ELSE {}
\* const { pages, results } = response: pages stays in scope while the later
\* pages of this invocation are requested
ReportedKept(pages) ==
    reported' = IF ppc' = "request" /\ pg' > 1 THEN pages ELSE 0

\* the loop of run() takes the next product and calls processProduct, up to
\* its first request; hasCategory: categories.find(...) finds the category
StartItem ==
    /\ wpc = "loop"
    /\ idx <= Len(productsToProcess)
    /\ processed' = Append(processed, CurId)
    /\ CallsReset
    /\ stored' = {}
    /\ reported' = 0
    /\ \E hasCategory \in BOOLEAN :
         IF ~hasCategory
           THEN ItemDone(TRUE, "category", FALSE, "none") /\ CountersReset
           ELSE IF ~RetryLoopCond(1, wAttempts)
           THEN ItemDone(TRUE, "retry", FALSE, "none") /\ CountersReset
           ELSE /\ InFlight("request", 1, 1, 1, 0, 0, 0, <<>>)
                /\ nFetch' = 1
                /\ anyDown' = FALSE /\ anyStore' = FALSE /\ nReg' = 0
                /\ failStage' = "none" /\ regFailKind' = "none"

\* the sizes of a result page explored; -1: results is not an array
PageSizes == {-1, 0, 1}

\* a page request resolves with pages = one of pageCounts and cnt results
RequestResolves(pageCounts) ==
    /\ ppc = "request"
    /\ processed' = processed
    /\ \E pages \in pageCounts, cnt \in PageSizes :
         /\ IF pg = 1
              THEN IF cnt <= 0
                     THEN FetchReturned(0)
                     ELSE IF pages > 1 /\ 2 <= Min(pages, PageCap)
                     THEN IssueRequest(oAtt, 1, 2, Min(pages, PageCap), cnt, FALSE)
                     ELSE FetchReturned(cnt)
              ELSE IF cnt < 0
                     THEN StageThrew("fetch")
                     ELSE IF pg + 1 <= pageLimit
                     THEN IssueRequest(oAtt, 1, pg + 1, pageLimit, rawCount + cnt,
                                       FALSE)
                     ELSE FetchReturned(rawCount + cnt)
         /\ ReportedKept(IF pg = 1 THEN pages ELSE reported)
    /\ CallResolved
    /\ StoreKept(stored)

\* a page request resolves, the source reporting up to MaxPages pages
RequestOk == RequestResolves(1..MaxPages)

\* a page request rejects
RequestFail ==
    /\ ppc = "request"
    /\ processed' = processed
    /\ CallThrew("fetch")
    /\ CallRejected
    /\ StoreKept(stored)
    /\ ReportedKept(reported)

\* the download of reference ui resolves: uploadBuffer is called
DownloadOk ==
    /\ ppc = "download"
    /\ processed' = processed
    /\ IssueStore(oAtt, 1, rawCount, ui, upImages)
    /\ CallResolved
    /\ StoreKept(stored)
    /\ ReportedKept(reported)

\* the download of reference ui rejects
DownloadFail ==
    /\ ppc = "download"
    /\ processed' = processed
    /\ CallThrew("upload")
    /\ CallRejected
    /\ StoreKept(stored)
    /\ ReportedKept(reported)

\* uploadAll dropping the image it just stored
PushImageDropped(imgs, index) == imgs
\* images.push({ secureUrl: secure_url, ... })
PushImage(imgs, index) == Append(imgs, index)

\* the store of reference ui resolves with a secure_url
StoreOk ==
    /\ ppc = "store"
    /\ processed' = processed
    /\ UploadLoop(oAtt, rawCount, ui + 1, PushImage(upImages, ui))
    /\ CallResolved
    /\ StoreKept(StorePut(stored, Asset(ui, oAtt, iAtt)))
    /\ ReportedKept(reported)

\* the store of reference ui rejects, or resolves without a secure_url;
\* landed: the store kept the asset all the same
StoreFail ==
    /\ ppc = "store"
    /\ processed' = processed
    /\ CallThrew("upload")
    /\ CallRejected
    /\ \E landed \in BOOLEAN :
         StoreKept(IF landed THEN StorePut(stored, Asset(ui, oAtt, iAtt))
                   ELSE stored)
    /\ ReportedKept(reported)

\* the registration call resolves
RegisterOk ==
    /\ ppc = "register"
    /\ processed' = processed
    /\ ItemDone(FALSE, "none", emptyFetch, "none")
    /\ UNCHANGED <<cntv, callv>>
    /\ StoreKept(stored)
    /\ ReportedKept(reported)

\* the registration call rejects: transport, status 5xx or status 4xx
RegisterFail ==
    /\ ppc = "register"
    /\ processed' = processed
    /\ \E kind \in {"transport", "5xx", "4xx"} :
         ItemDone(TRUE, "register", emptyFetch, kind)
    /\ UNCHANGED <<cntv, callv>>
    /\ StoreKept(stored)
    /\ ReportedKept(reported)

\* the lines run() prints after writeFailedProducts
Summary(acc) ==
    [printed |-> TRUE,
     success |-> Len(productsToProcess) - Len(acc),
     failed |-> Len(acc),
     suggested |-> Len(acc) > 0,
     suggestion |-> IF Len(acc) > 0 THEN acc ELSE <<>>]

\* a loop that is left after its first item
LoopOverAfterFirst(i, n) == i > 1
\* for (const product of this.productsToProcess): the iteration is exhausted,
\* i being the position of the next product and n their number
LoopOver(i, n) == i > n

\* the loop of run() is over: writeFailedProducts up to fs.writeFile, or, with
\* nothing failed, to the end of run(); what was observed of the last item is
\* cleared
LoopEnd ==
    /\ wpc = "loop"
    /\ LoopOver(idx, Len(productsToProcess))
    /\ IF Len(failedProducts) = 0
         THEN /\ wpc' = "done"
              /\ summary' = Summary(failedProducts)
              /\ exitCode' = ExitCode(FALSE)
              /\ UNCHANGED <<nWrites, payload>>
         ELSE /\ wpc' = "write"
              /\ nWrites' = nWrites + 1
              /\ payload' = Dedup(failedProducts)
              /\ UNCHANGED <<summary, exitCode>>
    /\ CountersReset /\ FlagsReset /\ CallsReset
    /\ UNCHANGED <<cfgv, accv, pipev, stored, reported, manifest, writeOk,
                   rvars>>

\* fs.writeFile resolves: the rest of run()
WriteOk ==
    /\ wpc = "write"
    /\ manifest' = [exists |-> TRUE, failed |-> payload]
    /\ writeOk' = TRUE
    /\ summary' = Summary(failedProducts)
    /\ exitCode' = ExitCode(FALSE)
    /\ wpc' = "done"
    /\ UNCHANGED <<cfgv, accv, pipev, cntv, flagv, callv, stored, reported,
                   nWrites, payload, rvars>>

\* a writeFailedProducts without its catch: the error of fs.writeFile ends
\* run(), and main() exits with 1
WriteFailRaises ==
    /\ wpc = "write"
    /\ exitCode' = ExitCode(TRUE)
    /\ wpc' = "done"
    /\ UNCHANGED <<cfgv, accv, pipev, cntv, flagv, callv, stored, reported,
                   manifest, nWrites, payload, writeOk, summary, rvars>>
\* fs.writeFile rejects: the catch logs, then the rest of run()
WriteFail ==
    /\ wpc = "write"
    /\ summary' = Summary(failedProducts)
    /\ exitCode' = ExitCode(FALSE)
    /\ wpc' = "done"
    /\ UNCHANGED <<cfgv, accv, pipev, cntv, flagv, callv, stored, reported,
                   manifest, nWrites, payload, writeOk, rvars>>

Next ==
    \/ Launch
    \/ StartItem
    \/ RequestOk
    \/ RequestFail
    \/ DownloadOk
    \/ DownloadFail
    \/ StoreOk
    \/ StoreFail
    \/ RegisterOk
    \/ RegisterFail
    \/ LoopEnd
    \/ WriteOk
    \/ WriteFail

\* the retry executor stays untouched while the worker runs
RetryIdle ==
    /\ rAttempts = 0 /\ rBackoffMs = 0 /\ rFactor = 1 /\ rAttempt = 1
    /\ rLastError = <<>> /\ rpc = "start" /\ rOutcomes = <<>>
    /\ rWaits = <<>> /\ rResult = <<>> /\ rThrown = <<>>

Init == WorkerInit /\ RetryIdle

InitRetry == RetryInit /\ WorkerInit /\ ~manifest.exists

Spec == Init /\ [][Next]_vars

\* the steps of run(): all but the start of the process
RunStep ==
    \/ StartItem
    \/ RequestOk \/ RequestFail
    \/ DownloadOk \/ DownloadFail
    \/ StoreOk \/ StoreFail
    \/ RegisterOk \/ RegisterFail
    \/ LoopEnd
    \/ WriteOk \/ WriteFail

\* main(): one worker is constructed and run
FirstLaunch == wpc = "init" /\ Launch
NextRun == FirstLaunch \/ RunStep
InitFair == WorkerStart(LeftManifests) /\ RetryIdle

\* the fetch stage on its own: one process started with --products=1, the
\* source reporting up to MaxTotalPages pages
FetchRequestOk == RequestResolves(1..MaxTotalPages)
LaunchOne ==
    /\ FirstLaunch
    /\ productFlag' = [given |-> TRUE, ids |-> {1}]
NextFetch == LaunchOne \/ StartItem \/ FetchRequestOk \/ RequestFail
SpecFetch == Init /\ [][NextFetch]_vars

\* one run of the process. Every awaited call settles (it resolves or rejects)
\* and the event loop then resumes run(): a step of run() that stays possible
\* is eventually taken
SpecFair == InitFair /\ [][NextRun]_vars /\ WF_vars(RunStep)

(***************************************************************************)
(* The worker: claims                                                      *)
(***************************************************************************)
LastOutcome == outcomes[Len(outcomes)]
\* ids of the selected items whose pipeline failed in this run
FailedSet ==
    {productsToProcess[j] : j \in {k \in 1..Len(outcomes) : outcomes[k] = "fail"}}
AllSucceeded == \A j \in 1..Len(outcomes) : outcomes[j] = "ok"

\* C1: processProduct is invoked exactly once for each selected item, in the
\* order of the selection, whatever items fail: a failure neither ends the
\* loop early nor skips or repeats an item.
C1_EveryItemOnceInOrder ==
    /\ productsToProcess = FilterByIds(Products, SeqToSet(productsToProcess))
    /\ wpc = "item" =>
          /\ processed = SubSeq(productsToProcess, 1, idx)
          /\ Len(outcomes) = idx - 1
    /\ wpc = "loop" =>
          /\ processed = SubSeq(productsToProcess, 1, idx - 1)
          /\ Len(outcomes) = idx - 1
    /\ wpc \in {"write", "done"} =>
          /\ processed = productsToProcess
          /\ Len(outcomes) = Len(productsToProcess)

C1_Witness ==
    /\ wpc = "done" /\ Len(processed) >= 3
    /\ outcomes[1] = "fail" /\ outcomes[2] = "ok" /\ outcomes[3] = "fail"

\* C2: a failed-only rerun against a manifest {failed: M}, every item of M
\* succeeding, reports zero failures, prints no rerun suggestion and does not
\* write the manifest again with the stale ids of M.
C2_CleanRerunReportsNoFailure ==
    (/\ wpc = "done" /\ mode = "failed"
     /\ loaded # <<>> /\ SeqToSet(loaded) \subseteq ProductIds
     /\ AllSucceeded) =>
        /\ summary.failed = 0
        /\ ~summary.suggested
        /\ nWrites = 0 \/ SeqToSet(payload) \cap SeqToSet(loaded) = {}

\* C3: when the set F of selected items whose pipeline failed is not empty,
\* the manifest written at the end of the run holds, as a set, exactly F.
C3_ManifestIsFailedSet ==
    (wpc = "done" /\ FailedSet # {} /\ writeOk) =>
        /\ manifest.exists
        /\ SeqToSet(manifest.failed) = FailedSet

\* C7: when the fetch stage returns an empty sequence for an item, the item
\* fails, its pipeline is over (the fetch is not invoked again), and no
\* download, store or registration call was made for it.
C7_EmptyFetchFailsItem ==
    emptyFetch =>
        /\ ppc = "idle" /\ wpc = "loop"
        /\ failStage = "empty"
        /\ LastOutcome = "fail"
        /\ ~anyDown /\ ~anyStore /\ nReg = 0

C7_Witness ==
    /\ emptyFetch /\ failStage = "empty" /\ wAttempts >= 2 /\ nFetch = 1
    /\ LastOutcome = "fail" /\ ppc = "idle"

\* C8: a stage that fails ends the item's pipeline: no call of a later stage
\* is issued, the item is recorded as failed, and the registration call is
\* only ever issued with one uploaded asset per fetched reference.
C8_FailureAbortsLaterStages ==
    /\ failStage \in {"category", "retry", "fetch", "empty"} =>
          ~anyDown /\ ~anyStore /\ nReg = 0
    /\ failStage \in {"upload", "count"} => nReg = 0
    /\ failStage # "none" =>
          /\ ppc = "idle"
          /\ LastOutcome = "fail"
          /\ failedProducts # <<>>
          /\ failedProducts[Len(failedProducts)] = processed[Len(processed)]
    /\ ppc = "register" =>
          /\ rawCount > 0
          /\ upImages = [j \in 1..rawCount |-> j - 1]

C8_Witness ==
    /\ failStage = "upload" /\ anyDown /\ anyStore /\ nReg = 0
    /\ LastOutcome = "fail"
    /\ failedProducts[Len(failedProducts)] = processed[Len(processed)]

\* C10: a registration call that fails with a transport or 5xx failure is
\* retried up to the attempt bound before the item is recorded as failed.
C10_RegistrationRetried ==
    (/\ failStage = "register" /\ regFailKind \in {"transport", "5xx"}
     /\ wAttempts >= 1) =>
        nReg = wAttempts

\* the selection the constructor made follows the precedence --products, then
\* --useFailed with a manifest that can be read, then the full dataset
ModeResolved ==
    wpc # "init" =>
        /\ productFlag.given =>
              /\ mode = "targeted" /\ manifestRead = "no" /\ loaded = <<>>
              /\ productsToProcess = FilterByIds(Products, productFlag.ids)
        /\ (~productFlag.given /\ useFailedFlag) =>
              /\ manifestRead \in {"ok", "threw"}
              /\ manifestRead = "ok" =>
                    /\ mode = "failed"
                    /\ productsToProcess =
                         FilterByIds(Products, SeqToSet(loaded))
              /\ manifestRead = "threw" =>
                    mode = "full" /\ productsToProcess = Products
        /\ (~productFlag.given /\ ~useFailedFlag) =>
              /\ mode = "full" /\ manifestRead = "no"
              /\ productsToProcess = Products

\* C12: the selection mode is resolved once, before the loop, with precedence
\* id list > failed rerun > full dataset; with both flags the id list is used
\* and the manifest is not read; and from the first step of the loop to the
\* end of run() neither the mode nor the selected work set changes.
C12_ModeResolvedOnce ==
    /\ []ModeResolved
    /\ [][wpc \notin {"init", "done"} =>
            UNCHANGED <<mode, manifestRead, productsToProcess>>]_vars

C12_Witness ==
    /\ wpc = "done" /\ productFlag.given /\ useFailedFlag /\ manifest.exists
    /\ mode = "targeted" /\ manifestRead = "no"
    /\ Len(processed) = 2 /\ Len(failedProducts) = 1

\* position of a product id in the dataset
PosInDataset(id) == CHOOSE j \in 1..NumProducts : Products[j] = id
\* the ids of the selected items that failed so far in this run, in order
RECURSIVE FailedUpTo(_)
FailedUpTo(k) ==
    IF k = 0 THEN <<>>
    ELSE IF outcomes[k] = "fail"
           THEN Append(FailedUpTo(k - 1), productsToProcess[k])
           ELSE FailedUpTo(k - 1)
FailedInRun == FailedUpTo(Len(outcomes))

\* C13: a targeted run with id set S processes exactly the products whose id
\* is in S, each once and in dataset order; an id of S that no product has
\* yields no item, no failure record and no error, and no product outside S
\* is processed.
C13_TargetedRunProcessesSelection ==
    mode = "targeted" =>
        LET S == productFlag.ids
            n == Len(productsToProcess)
        IN /\ \A j \in 1..n : productsToProcess[j] \in S \cap ProductIds
           /\ \A id \in S \cap ProductIds :
                 \E j \in 1..n : productsToProcess[j] = id
           /\ \A j, k \in 1..n :
                 j < k => PosInDataset(productsToProcess[j])
                            < PosInDataset(productsToProcess[k])
           /\ SeqToSet(processed) \subseteq S \cap ProductIds
           /\ failedProducts = FailedInRun
           /\ wpc = "done" =>
                 /\ processed = productsToProcess
                 /\ summary.printed
                 /\ summary.failed = Len(FailedInRun)

C13_Witness ==
    /\ wpc = "done" /\ mode = "targeted"
    /\ productFlag.ids = {3, ForeignId}
    /\ processed = <<3>> /\ outcomes = <<"ok">> /\ failedProducts = <<>>

NoDuplicate(seq) == \A j, k \in 1..Len(seq) : seq[j] = seq[k] => j = k

\* C15: when no selected item fails in a run, the run does not write the
\* manifest (an existing manifest keeps its content) and reports zero
\* failures.
C15_NoFailureNoWrite ==
    (wpc = "done" /\ AllSucceeded) =>
        /\ nWrites = 0
        /\ summary.failed = 0
        /\ ~summary.suggested

\* C16: when a run ends with at least one failed item, the rerun suggestion it
\* prints holds each id of an item that failed in this run exactly once and
\* no other id: the same id set as the manifest just written.
C16_SuggestionIsDedupedFailedSet ==
    (wpc = "done" /\ FailedSet # {}) =>
        /\ summary.suggested
        /\ NoDuplicate(summary.suggestion)
        /\ SeqToSet(summary.suggestion) = FailedSet
        /\ writeOk => SeqToSet(summary.suggestion) = SeqToSet(manifest.failed)

\* C17: every manifest the program writes holds each id at most once,
\* whatever runs came before and in whatever mode, a failed-only rerun in
\* which an item of the manifest fails again included.
C17_ManifestIdsUnique ==
    /\ wpc = "write" => NoDuplicate(payload)
    /\ writeOk => manifest.exists /\ NoDuplicate(manifest.failed)
    /\ manifest.exists => NoDuplicate(manifest.failed)

C17_Witness ==
    /\ wpc = "done" /\ mode = "failed" /\ writeOk
    /\ loaded = <<1, 2>> /\ outcomes = <<"ok", "fail">>
    /\ failedProducts = <<1, 2, 2>>
    /\ manifest.failed = <<1, 2>>

\* C18: once the worker is constructed, run() never raises whatever items
\* fail: the process exits with code 0 also when some or all items failed,
\* and the failures show in the summary and in the manifest write only.
C18_ExitCodeZero ==
    /\ exitCode \in {NoExit, 0}
    /\ wpc = "done" <=> exitCode = 0
    /\ wpc = "done" =>
          /\ summary.printed
          /\ FailedSet # {} => summary.failed > 0 /\ nWrites = 1

C18_Witness ==
    /\ wpc = "done" /\ exitCode = 0 /\ mode = "full"
    /\ outcomes = <<"fail", "fail", "fail">> /\ summary.failed = 3

\* what is left of the pipeline of the item under way, as a number that every
\* step lowers: the stage, then the attempts left of the worker's retry, then
\* the pages or references left, then the attempts left of the adapter's retry
RadixInner == MaxWorkerAttempts + 1
RadixPos == 2 * MaxPages + 1
RadixOuter == MaxWorkerAttempts + 1
ItemSpan == 1 + RadixInner * RadixPos * RadixOuter * 3
RankInItem ==
    LET stage == CASE ppc = "request" -> 2
                   [] ppc \in {"download", "store"} -> 1
                   [] OTHER -> 0
        outerLeft == IF ppc = "register" THEN 0 ELSE wAttempts - oAtt
        posLeft == CASE ppc = "request" -> MaxPages - pg
                     [] ppc = "download" -> 2 * (rawCount - ui)
                     [] ppc = "store" -> 2 * (rawCount - ui) - 1
                     [] OTHER -> 0
        innerLeft == IF ppc = "register" THEN 0 ELSE wAttempts - iAtt
    IN 1 + innerLeft + RadixInner * (posLeft + RadixPos * (outerLeft + RadixOuter * stage))
\* what is left of the run
Rank ==
    CASE wpc = "done" -> 0
      [] wpc = "write" -> 1
      [] wpc = "loop" -> 2 + (Len(productsToProcess) - idx + 1) * ItemSpan
      [] wpc = "item" -> 2 + (Len(productsToProcess) - idx) * ItemSpan + RankInItem
      [] OTHER -> 0
Running == wpc \in {"loop", "item", "write"}
Finished == wpc = "done" /\ summary.printed

\* C19: every run reaches its final summary: each step of run() lowers a
\* bounded measure of the work left (so no item is retried without bound),
\* and, every awaited call settling, a run under way leads to the summary (so
\* there is no state of a run from which the loop cannot advance).
C19_RunTerminates ==
    /\ [][Running => (Rank' < Rank /\ Rank' >= 0)]_vars
    /\ (Running ~> Finished)

C19_Witness ==
    /\ Finished /\ wAttempts = 2 /\ mode = "failed"
    /\ loaded = <<1, 2>> /\ outcomes = <<"fail", "ok">> /\ writeOk

\* C20: whatever upload attempts were made for the item under way, with n
\* fetched references (retries of one store, retries of the whole upload
\* stage from index 0), the store holds at most one asset per (item id,
\* index), at indexes 0..n-1 only, and one asset for each index once uploadAll
\* has returned.
C20_OneAssetPerAddress ==
    /\ \A a, b \in stored : (a.folder = b.folder /\ a.ref = b.ref) => a = b
    /\ \A a \in stored :
          /\ wpc = "item" /\ a.folder = CurId
          /\ a.ref \in 0..(rawCount - 1)
    /\ ppc = "register" =>
          \A index \in 0..(rawCount - 1) :
              Cardinality({a \in stored : a.ref = index}) = 1

C20_Witness ==
    /\ ppc = "store" /\ rawCount = 2 /\ wAttempts = 2
    /\ oAtt = 2 /\ iAtt = 1 /\ ui = 1
    /\ Cardinality(stored) = 2

\* C11: an external call of one item that fails on every call (here the first
\* call of a stage: the request of page 1, the download of reference 0) is
\* invoked at most attempts times before the item is recorded as failed.
C11_FailingCallBoundedByAttempts ==
    (/\ failStage \in {"fetch", "upload"}
     /\ deadCalls > 0) =>
        deadCalls <= wAttempts

\* C22: within one item a single call is in flight; each pass of the upload
\* stage handles the references in increasing index order (download i, store
\* i, download i + 1), every request of the fetch stage precedes the first
\* download, and the registration call follows the store of the last
\* reference.
C22_StageCallsInOrder ==
    /\ [](ppc \in {"download", "store"} =>
            /\ ui \in 0..(rawCount - 1)
            /\ upImages = [j \in 1..ui |-> j - 1])
    /\ [][(wpc = "item" /\ wpc' = "item") =>
            /\ ppc' = "request" => ppc = "request"
            /\ ppc' = "download" =>
                 \/ ppc = "request" /\ oAtt' = 1 /\ ui' = 0
                 \/ ppc = "store" /\ oAtt' = oAtt /\ ui' = ui + 1
                 \/ ppc = "download" /\ oAtt' = oAtt /\ ui' = ui
                      /\ iAtt' = iAtt + 1
                 \/ ppc \in {"download", "store"} /\ oAtt' = oAtt + 1
                      /\ ui' = 0
            /\ ppc' = "store" =>
                 \/ ppc = "download" /\ oAtt' = oAtt /\ ui' = ui
                 \/ ppc = "store" /\ oAtt' = oAtt /\ ui' = ui
                      /\ iAtt' = iAtt + 1
            /\ ppc' = "register" =>
                 ppc = "store" /\ ui = rawCount - 1]_vars

C22_Witness ==
    /\ ppc = "register" /\ rawCount = 2 /\ upImages = <<0, 1>>
    /\ nFetch = 2 /\ anyDown /\ anyStore

\* C23: during a run at most one item is inside its pipeline: a call is in
\* flight only for the item the loop is at, and processProduct is invoked for
\* the next item only once the pipeline of the current one has returned or
\* thrown.
C23_OneItemAtATime ==
    /\ []((wpc = "item") <=> (ppc # "idle"))
    /\ [](Len(processed) = Len(outcomes) + (IF wpc = "item" THEN 1 ELSE 0))
    /\ [](wpc = "item" => processed[Len(processed)] = CurId)
    /\ [][Len(processed') > Len(processed) =>
            /\ wpc = "loop" /\ ppc = "idle"
            /\ Len(outcomes) = Len(processed)
            /\ Len(processed') = Len(processed) + 1]_vars

C23_Witness ==
    /\ wpc = "item" /\ ppc = "download" /\ idx = 2
    /\ outcomes = <<"fail">> /\ processed = <<1, 2>>

\* C24: the manifest is written at most once per run, and only once the
\* pipeline of the last selected item is over: no write is attempted while a
\* selected item is unprocessed or in progress.
C24_ManifestWrittenOnceAtEnd ==
    /\ [](nWrites <= 1)
    /\ [](nWrites = 1 =>
            /\ wpc \in {"write", "done"} /\ ppc = "idle"
            /\ processed = productsToProcess
            /\ Len(outcomes) = Len(productsToProcess))
    /\ [][manifest' # manifest => (wpc = "write" /\ nWrites = 1)]_vars

C24_Witness ==
    /\ wpc = "done" /\ nWrites = 1 /\ writeOk
    /\ Len(productsToProcess) = 3 /\ outcomes = <<"ok", "fail", "ok">>

\* C25: one invocation of fetchImagesForCategory requests the pages in
\* ascending order from page 1 and never a page above min(pages reported by
\* page 1, 10); a later page is requested only when page 1 had results, and a
\* page 1 without results makes the invocation return [] (the item fails as
\* "empty", not as a fetch that threw).
C25_PagesAscendingAndCapped ==
    /\ [](ppc = "request" =>
            /\ pg >= 1
            /\ pg >= 2 => (pg <= reported /\ pg <= 10 /\ rawCount >= 1))
    /\ [][ppc' = "request" =>
            IF ppc # "request" \/ oAtt' # oAtt
              THEN pg' = 1 /\ rawCount' = 0
              ELSE \/ pg' = pg /\ iAtt' = iAtt + 1 /\ rawCount' = rawCount
                   \/ pg' = pg + 1 /\ iAtt' = 1 /\ rawCount' >= 1]_vars
    /\ [][(emptyFetch' /\ ~emptyFetch) =>
            /\ ppc = "request" /\ pg = 1
            /\ ppc' = "idle" /\ failStage' = "empty"
            /\ nFetch' = nFetch]_vars

C25_Witness ==
    /\ ppc = "request" /\ pg = 10 /\ reported > 10 /\ rawCount = 9
    /\ oAtt = 2 /\ iAtt = 2

\* C26 as claimed: for attempts >= 1, backoffMs >= 0 and factor > 1, each wait
\* is strictly longer than the one before it, and the k-th wait is
\* backoffMs * factor^(k-1) (no jitter).
C26_WaitsStrictlyGrow ==
    (rAttempts >= 1 /\ rBackoffMs >= 0 /\ rFactor > 1) =>
        /\ \A k \in 1..Len(rWaits) :
              rWaits[k] = rBackoffMs * Pow(rFactor, k - 1)
        /\ \A k \in 1..(Len(rWaits) - 1) : rWaits[k + 1] > rWaits[k]

\* C26: for attempts >= 1 and factor > 1 the k-th wait is
\* backoffMs * factor^(k-1) and nothing else (no jitter); with backoffMs > 0
\* each wait is strictly longer than the one before it, with backoffMs = 0
\* every wait is 0.
C26_WaitsGrowFromPositiveDelay ==
    (rAttempts >= 1 /\ rBackoffMs >= 0 /\ rFactor > 1) =>
        /\ \A k \in 1..Len(rWaits) :
              rWaits[k] = rBackoffMs * Pow(rFactor, k - 1)
        /\ rBackoffMs > 0 =>
              \A k \in 1..(Len(rWaits) - 1) : rWaits[k + 1] > rWaits[k]
        /\ rBackoffMs = 0 => \A k \in 1..Len(rWaits) : rWaits[k] = 0

C26_Witness ==
    /\ rAttempts = 3 /\ rBackoffMs = 1 /\ rFactor = 3
    /\ rWaits = <<1, 3>> /\ rpc = "sleep"

\* C29: with attempts < 1 retry invokes the operation zero times, waits zero
\* times and throws the generic error; and whatever retry returns is the
\* result of an invocation of the operation that resolved.
C29_NoAttemptsNoInvocation ==
    /\ rAttempts < 1 =>
          /\ rOutcomes = <<>> /\ rWaits = <<>> /\ rResult = <<>>
          /\ rpc \in {"start", "thrown"}
          /\ rpc = "thrown" => rThrown = GenericError
    /\ rpc = "returned" =>
          \E j \in 1..Len(rOutcomes) : rResult = <<j>> /\ rOutcomes[j] = "ok"
    /\ rResult # <<>> => rpc = "returned"

C29_Witness ==
    /\ rAttempts = 0 /\ rpc = "thrown" /\ rThrown = GenericError
    /\ rOutcomes = <<>> /\ rWaits = <<>>

\* C27: at the end of every run, in any selection mode, the reported failed
\* count is the number of selected items whose pipeline failed in this run,
\* the reported success count the number whose pipeline succeeded, the two add
\* up to the number of selected items, and the success count is not negative.
C27_SummaryCountsMatchRun ==
    (wpc = "done" /\ summary.printed) =>
        /\ summary.failed =
             Cardinality({j \in 1..Len(outcomes) : outcomes[j] = "fail"})
        /\ summary.success =
             Cardinality({j \in 1..Len(outcomes) : outcomes[j] = "ok"})
        /\ summary.failed + summary.success = Len(productsToProcess)
        /\ summary.success >= 0

\* C28: when uploadAll returns for n references it returns n uploaded assets,
\* the i-th being that of the i-th reference: the registration call is issued
\* with exactly these, and no item ever fails on the count comparison of
\* processProduct.
C28_UploadReturnsOnePerReference ==
    /\ failStage # "count"
    /\ ppc = "register" =>
          /\ Len(upImages) = rawCount
          /\ \A j \in 1..Len(upImages) : upImages[j] = j - 1

C28_Witness ==
    /\ ppc = "register" /\ rawCount = 2 /\ upImages = <<0, 1>>
    /\ nFetch = 1 /\ idx = 3 /\ outcomes = <<"ok", "fail">>

\* C30: when fs.writeFile rejects, the error stays inside
\* writeFailedProducts: run() still prints its summary and the rerun
\* suggestion with the ids of the accumulator, main() exits with 0, and the
\* failed write changes neither the accumulator nor the manifest on disk.
C30_WriteFailureNotPropagated ==
    /\ []((wpc = "done" /\ nWrites = 1 /\ ~writeOk) =>
            /\ summary.printed /\ summary.suggested
            /\ summary.suggestion = failedProducts
            /\ summary.failed = Len(failedProducts)
            /\ SeqToSet(summary.suggestion) = SeqToSet(payload)
            /\ exitCode = ExitCode(FALSE))
    /\ [][wpc = "write" =>
            /\ failedProducts' = failedProducts
            /\ wpc' = "done"
            /\ ~writeOk' => manifest' = manifest]_vars

C30_Witness ==
    /\ wpc = "done" /\ nWrites = 1 /\ ~writeOk /\ ~manifest.exists
    /\ summary.suggestion = <<2>> /\ exitCode = 0

SpecRetry == InitRetry /\ [][RetryNext]_vars

====
